---- MODULE Spec2Model ----
(***************************************************************************)
(* Model of the /api/status handler of src/api/status.ts: one request is   *)
(* read, the review source, the vitals source and the crash-event source   *)
(* are called in turn, the fetched records are aggregated into two time    *)
(* windows, both metrics are classified and one snapshot is sent.          *)
(*                                                                         *)
(* Time is a count of milliseconds, as in a JavaScript Date.  The process  *)
(* is taken to run in UTC (no daylight-saving shifts), a day has SecPerDay *)
(* seconds and every month has DaysPerMonth days.  A number that is the    *)
(* average of a list is kept as the fraction sum/length.  Every new Date() *)
(* is a reading of the clock of its own: a later reading returns the same  *)
(* instant or the next millisecond.  A fault raised by an upstream call is *)
(* an Error object, known by its message string.                           *)
(***************************************************************************)
EXTENDS Integers, Sequences, FiniteSets, TLC

VARIABLES
    world,   \* what lies outside the handler: process.env, the clock, the upstream replies
    pc,      \* pc[r]: the position of request r inside handler
    req,     \* req[r]: the request (method, query)
    st,      \* st[r]: the local variables of the invocation for request r
    calls,   \* calls[r]: how many calls each upstream source has received from r
    reply,   \* reply[r]: what each upstream call of r has answered
    sent,    \* sent[r]: the responses written to res, in order
    ui       \* the dashboard client: the state of App and the fetches it has started

vars == <<ui, world, pc, req, st, calls, reply, sent>>

----------------------------------------------------------------------------
(* Bounds of the model *)

\* the number of fetches the dashboard client starts in one run
MaxFetches == 3

MaxReviews == 2      \* longest list of reviews the review source returns
MaxRows == 2         \* longest list of rows the crash-event source returns
SecPerDay == 10      \* seconds in a (scaled) day
DaysPerMonth == 30   \* days in a (uniform) month
MaxBadReviews == 8   \* most one-star reviews in one answer of the review source

(* Constants of the program *)

MsPerSec == 1000
WeekDays == 7
BadRatingMax == 2
ReviewCriticalAbove == 6
ReviewWarningFrom == 5
CrashCriticalAbove == 1500
CrashWarningFrom == 1001

DayMs == SecPerDay * MsPerSec

----------------------------------------------------------------------------
(* JavaScript Date *)

DayOf(t) == t \div DayMs
TimeInDay(t) == t % DayMs
MonthStartDay(t) == DayOf(t) - (DayOf(t) % DaysPerMonth)

\* Date.prototype.getDate: the day of the month, 1-based
GetDate(t) == (DayOf(t) % DaysPerMonth) + 1

\* Date.prototype.setDate: day d of the month t lies in, same time of day;
\* d below 1 or above the month's length rolls into the neighbouring months
SetDate(t, d) == (MonthStartDay(t) + d - 1) * DayMs + TimeInDay(t)

----------------------------------------------------------------------------
(* parseInt(s, 10) on a string given as its sequence of characters *)

Digits == <<"0", "1", "2", "3", "4", "5", "6", "7", "8", "9">>
IsDigit(c) == \E i \in 1..10 : Digits[i] = c
DigitVal(c) == (CHOOSE i \in 1..10 : Digits[i] = c) - 1

RECURSIVE ParseDigits(_, _, _)
ParseDigits(s, i, acc) ==
    IF i > Len(s) \/ ~IsDigit(s[i]) THEN acc
    ELSE ParseDigits(s, i + 1, acc * 10 + DigitVal(s[i]))

\* only strings with a leading number are parsed here (no NaN)
ParseInt(s) ==
    IF Len(s) > 0 /\ s[1] = "-" THEN 0 - ParseDigits(s, 2, 0)
    ELSE ParseDigits(s, 1, 0)

----------------------------------------------------------------------------
(* Numbers that are averages *)

Frac(n, d) == [n |-> n, d |-> d]
Zero == Frac(0, 1)
FracEq(a, b) == a.n * b.d = b.n * a.d

RECURSIVE SumSeq(_)
SumSeq(s) == IF s = <<>> THEN 0 ELSE Head(s) + SumSeq(Tail(s))

AverageTruncated(arr) == IF Len(arr) > 0 THEN Frac(SumSeq(arr) \div Len(arr), 1) ELSE Zero
\* arr.length > 0 ? arr.reduce((a, b) => a + b, 0) / arr.length : 0
Average(arr) == IF Len(arr) > 0 THEN Frac(SumSeq(arr), Len(arr)) ELSE Zero

\* Number.prototype.toFixed(2), as a count of hundredths
ToFixed2(a) == (200 * a.n + a.d) \div (2 * a.d)

----------------------------------------------------------------------------
(* Strings that the code inspects character by character are sequences of *)
(* one-character strings.                                                  *)

RECURSIVE TrimLeft(_)
TrimLeft(s) == IF s # <<>> /\ Head(s) = " " THEN TrimLeft(Tail(s)) ELSE s

RECURSIVE TrimRight(_)
TrimRight(s) ==
    IF s # <<>> /\ s[Len(s)] = " " THEN TrimRight(SubSeq(s, 1, Len(s) - 1)) ELSE s

\* String.prototype.trim
Trim(s) == TrimRight(TrimLeft(s))

----------------------------------------------------------------------------
(* Values of the upstream sources *)

None == -1     \* a field that is absent (undefined)

\* one element of response.data.reviews; kind "null" is a null element
Review(id, author, rating, text, seconds) ==
    [kind |-> "review", id |-> id, author |-> author, hasComment |-> TRUE,
     rating |-> rating, text |-> text, seconds |-> seconds]
NullReview ==
    [kind |-> "null", id |-> "", author |-> "", hasComment |-> FALSE,
     rating |-> 0, text |-> <<>>, seconds |-> None]

\* one element of response.rows; kind "null" is a null element
Row(version, value) == [kind |-> "row", version |-> version, value |-> value]
NullRow == [kind |-> "null", version |-> "", value |-> <<>>]

\* playConsoleRaw, vitalsRaw, ga4Raw: null, {error: message} or the payload
NullRaw == [tag |-> "null", error |-> "", data |-> <<>>]
ErrRaw(message) == [tag |-> "error", error |-> message, data |-> <<>>]
DataRaw(data) == [tag |-> "data", error |-> "", data |-> data]

\* the truthiness of raw?.error
HasError(raw) == raw.tag = "error" /\ raw.error # ""

\* messages of the faults raised inside the handler
PlayMissingMsg == "GOOGLE_PLAY_SERVICE_ACCOUNT_JSON is missing."
FbMissingMsg == "FIREBASE_SERVICE_ACCOUNT_JSON is missing."
Ga4MissingMsg == "GA4_PROPERTY_ID is missing."
JsonSyntaxMsg == "Unexpected token in JSON"
NullReviewMsg == "Cannot read properties of null (reading 'comments')"
NullRowMsg == "Cannot read properties of null (reading 'dimensionValues')"

LogEntry(tag, text, x, y) == [tag |-> tag, text |-> text, x |-> x, y |-> y]

----------------------------------------------------------------------------
(* The review block: windows and the pass over the fetched reviews *)

\* currentPeriodStart: a second reading of the clock (base), moved to the
\* day of the month of now minus rangeDays
CurrentPeriodStart(now, base, rangeDays) == SetDate(base, GetDate(now) - rangeDays)

PreviousPeriodStart(cps, rangeDays, compareType) ==
    IF compareType = "day" THEN SetDate(cps, GetDate(cps) - rangeDays)
    ELSE SetDate(cps, GetDate(cps) - WeekDays)

InCurrentStrict(reviewDate, cps, now) == reviewDate > cps /\ reviewDate <= now
InCurrent(reviewDate, cps, now) == reviewDate >= cps /\ reviewDate <= now
InPrevious(reviewDate, pps, cps) == reviewDate >= pps /\ reviewDate < cps

TextEntry(review, text, reviewDate) ==
    [id |-> review.id, rating |-> review.rating, text |-> text, date |-> reviewDate,
     author |-> IF review.author = "" THEN "Anonymous" ELSE review.author]

\* the body of the forEach callback, applied to one review; acc holds the
\* three arrays the callback pushes to and whether a fault has been raised
ReviewCallback(acc, review, now, cps, pps) ==
    IF review.kind = "null" THEN [acc EXCEPT !.thrown = TRUE, !.message = NullReviewMsg]
    ELSE IF ~review.hasComment THEN acc
    ELSE LET rating == review.rating
             text == Trim(review.text)
             lastModified == review.seconds
         IN IF rating = 0 \/ lastModified = None THEN acc
            ELSE LET reviewDate == lastModified * MsPerSec
                 IN IF InCurrent(reviewDate, cps, now)
                    THEN [acc EXCEPT !.cur = Append(@, rating),
                                     !.texts = IF text # <<>>
                                               THEN Append(@, TextEntry(review, text, reviewDate))
                                               ELSE @]
                    ELSE IF InPrevious(reviewDate, pps, cps)
                    THEN [acc EXCEPT !.prev = Append(@, rating)]
                    ELSE acc

RECURSIVE ForEachReview(_, _, _, _, _, _)
ForEachReview(acc, reviews, i, now, cps, pps) ==
    IF i > Len(reviews) \/ acc.thrown THEN acc
    ELSE ForEachReview(ReviewCallback(acc, reviews[i], now, cps, pps),
                       reviews, i + 1, now, cps, pps)

RECURSIVE InsertBeforeSameDate(_, _)
InsertBeforeSameDate(sorted, e) ==
    IF sorted = <<>> THEN <<e>>
    ELSE IF Head(sorted).date > e.date THEN <<Head(sorted)>> \o InsertBeforeSameDate(Tail(sorted), e)
    ELSE <<e>> \o sorted
\* insertion of e into a list sorted by date descending, after its equals
RECURSIVE InsertByDateDesc(_, _)
InsertByDateDesc(sorted, e) ==
    IF sorted = <<>> THEN <<e>>
    ELSE IF Head(sorted).date >= e.date THEN <<Head(sorted)>> \o InsertByDateDesc(Tail(sorted), e)
    ELSE <<e>> \o sorted

\* reviewTexts.sort((a, b) => date(b) - date(a)), a stable sort
RECURSIVE SortByDateDesc(_)
SortByDateDesc(texts) ==
    IF texts = <<>> THEN <<>>
    ELSE InsertByDateDesc(SortByDateDesc(SubSeq(texts, 1, Len(texts) - 1)), texts[Len(texts)])

----------------------------------------------------------------------------
(* The crash block *)

\* { version: row... || 'Unknown', count: parseInt(row... || '0', 10) }
VersionEntry(row) ==
    [version |-> IF row.version = "" THEN "Unknown" ELSE row.version,
     count |-> ParseInt(IF row.value = <<>> THEN <<"0">> ELSE row.value)]

MapRows(rows) == [i \in 1..Len(rows) |-> VersionEntry(rows[i])]

RECURSIVE InsertBeforeEquals(_, _)
InsertBeforeEquals(sorted, e) ==
    IF sorted = <<>> THEN <<e>>
    ELSE IF Head(sorted).count > e.count THEN <<Head(sorted)>> \o InsertBeforeEquals(Tail(sorted), e)
    ELSE <<e>> \o sorted
RECURSIVE InsertByCountDesc(_, _)
InsertByCountDesc(sorted, e) ==
    IF sorted = <<>> THEN <<e>>
    ELSE IF Head(sorted).count >= e.count THEN <<Head(sorted)>> \o InsertByCountDesc(Tail(sorted), e)
    ELSE <<e>> \o sorted

\* .sort((a, b) => b.count - a.count), a stable sort
RECURSIVE SortByCountDesc(_)
SortByCountDesc(vs) ==
    IF vs = <<>> THEN <<>>
    ELSE InsertByCountDesc(SortByCountDesc(SubSeq(vs, 1, Len(vs) - 1)), vs[Len(vs)])

RECURSIVE SumCounts(_)
SumCounts(vs) == IF vs = <<>> THEN 0 ELSE Head(vs).count + SumCounts(Tail(vs))

----------------------------------------------------------------------------
(* Status *)

RECURSIVE CountBadBelow(_)
CountBadBelow(ratings) ==
    IF ratings = <<>> THEN 0
    ELSE (IF Head(ratings) < BadRatingMax THEN 1 ELSE 0) + CountBadBelow(Tail(ratings))
RECURSIVE CountBad(_)
CountBad(ratings) ==
    IF ratings = <<>> THEN 0
    ELSE (IF Head(ratings) <= BadRatingMax THEN 1 ELSE 0) + CountBad(Tail(ratings))

\* the four status labels (Korean text in the source), named by meaning
StatusNormal == "normal"
StatusFailed == "lookup failed"
StatusCritical == "critical (stop at once)"
StatusWarning == "caution (share internally)"

ReviewStatusOffByOne(playConsoleRaw, badReviewCount) ==
    IF HasError(playConsoleRaw) THEN [status |-> StatusFailed, level |-> "warning"]
    ELSE IF badReviewCount >= ReviewCriticalAbove THEN [status |-> StatusCritical, level |-> "critical"]
    ELSE IF badReviewCount >= ReviewWarningFrom THEN [status |-> StatusWarning, level |-> "warning"]
    ELSE [status |-> StatusNormal, level |-> "normal"]
ReviewStatus(playConsoleRaw, badReviewCount) ==
    IF HasError(playConsoleRaw) THEN [status |-> StatusFailed, level |-> "warning"]
    ELSE IF badReviewCount > ReviewCriticalAbove THEN [status |-> StatusCritical, level |-> "critical"]
    ELSE IF badReviewCount >= ReviewWarningFrom THEN [status |-> StatusWarning, level |-> "warning"]
    ELSE [status |-> StatusNormal, level |-> "normal"]

CrashStatusOffByOne(ga4Raw, crashCount) ==
    IF HasError(ga4Raw) THEN [status |-> StatusFailed, level |-> "warning"]
    ELSE IF crashCount > CrashCriticalAbove THEN [status |-> StatusCritical, level |-> "critical"]
    ELSE IF crashCount > CrashWarningFrom THEN [status |-> StatusWarning, level |-> "warning"]
    ELSE [status |-> StatusNormal, level |-> "normal"]
CrashStatus(ga4Raw, crashCount) ==
    IF HasError(ga4Raw) THEN [status |-> StatusFailed, level |-> "warning"]
    ELSE IF crashCount > CrashCriticalAbove THEN [status |-> StatusCritical, level |-> "critical"]
    ELSE IF crashCount >= CrashWarningFrom THEN [status |-> StatusWarning, level |-> "warning"]
    ELSE [status |-> StatusNormal, level |-> "normal"]

----------------------------------------------------------------------------
(* The world outside the handler *)

\* the clock: an instant inside a month, and the last millisecond of a month
NowMid == 40 * DayMs + 5 * MsPerSec
NowMonthEnd == 2 * DaysPerMonth * DayMs - 1
Nows(profile) == IF profile = "pair" THEN {NowMid} ELSE {NowMid, NowMonthEnd}

\* a later reading of the clock, given an earlier one
LaterReads(t) == {t, t + 1}

\* lastModified.seconds of a review written d days before NowMid
SecAgo(d) == (NowMid - d * DayMs) \div MsPerSec

ReviewSamples ==
    { Review("r1", "kim", 1, <<"b", "a", "d">>, SecAgo(1)),
      Review("r2", "", 5, <<" ">>, SecAgo(1)),
      Review("r3", "lee", 2, <<"s", "l", "o", "w">>, SecAgo(10)),
      Review("r4", "", 2, <<>>, SecAgo(7)),
      Review("r5", "", 0, <<"x">>, SecAgo(1)),
      Review("r6", "", 1, <<"x">>, None),
      Review("r7", "", 1, <<"x">>, SecAgo(0) + SecPerDay),
      NullReview }

RowSamples ==
    { Row("1.0", <<"9", "0", "0">>),
      Row("1.1", <<"7", "0", "0">>),
      Row("", <<>>),
      NullRow }

SeqsUpTo(S, n) == UNION {[1..k -> S] : k \in 0..n}

\* the scenario of the specification: ratings 1 and 5 a day ago, 2 ten days ago
ScenarioFeed ==
    << Review("r1", "kim", 1, <<"b", "a", "d">>, SecAgo(1)),
       Review("r2", "", 5, <<" ">>, SecAgo(1)),
       Review("r3", "lee", 2, <<"s", "l", "o", "w">>, SecAgo(10)) >>

\* the reason strings of the faults an upstream call raises (error.message)
Reasons == {"", "timeout"}

\* what the upstream sources may answer, by profile of the world
\* k reviews of one star written a day ago, followed by one of five stars
ManyBad(k) ==
    [i \in 1..k |-> Review("r1", "kim", 1, <<"b", "a", "d">>, SecAgo(1))]
        \o <<Review("r2", "", 5, <<" ">>, SecAgo(1))>>

\* a report of one row with the given eventCount
OneRow(value) == <<Row("1.0", value)>>

\* reviews with and without text, written the same day and on other days
TextSamples ==
    { Review("t1", "kim", 1, <<"b", "a", "d">>, SecAgo(1)),
      Review("t2", "", 4, <<"o", "k">>, SecAgo(1)),
      Review("t3", "lee", 2, <<" ", "s", "l", "o", "w">>, SecAgo(3)),
      Review("t4", "", 5, <<" ">>, SecAgo(1)),
      Review("t5", "", 3, <<>>, SecAgo(2)),
      Review("t6", "", 2, <<"o", "l", "d">>, SecAgo(10)) }

\* reviews dated after the clock of the request: a second, half a day and
\* a day after NowMid, and a fortnight and more after NowMonthEnd
FutureSamples ==
    { Review("f1", "kim", 1, <<"s", "o", "o", "n">>, SecAgo(0) + 1),
      Review("f2", "", 2, <<"h", "a", "l", "f">>, SecAgo(0) + SecPerDay \div 2),
      Review("f3", "", 5, <<"f", "a", "r">>, (3 * DaysPerMonth - 14) * SecPerDay),
      Review("f4", "lee", 1, <<"b", "a", "d">>, SecAgo(1)) }

ReviewFeeds(profile) ==
    IF profile = "full" THEN SeqsUpTo(ReviewSamples, MaxReviews) \cup {ScenarioFeed}
    ELSE IF profile = "future" THEN SeqsUpTo(FutureSamples, MaxReviews)
    ELSE IF profile = "texts" THEN SeqsUpTo(TextSamples, MaxReviews)
    ELSE IF profile = "levels" THEN {ManyBad(k) : k \in 0..MaxBadReviews}
    ELSE {ScenarioFeed}
ReviewFaults(profile) == IF profile = "full" THEN Reasons ELSE {"timeout"}
VitalsFeeds(profile) == IF profile = "full" THEN {<<>>, <<"issue-1">>} ELSE {<<"issue-1">>}
VitalsFaults(profile) == {"timeout"}
CrashFeeds(profile) ==
    IF profile = "crashes"
    THEN SeqsUpTo(RowSamples \cup {Row("1.2", <<"7", "0", "0">>)}, MaxRows)
    ELSE IF profile = "levels"
    THEN { <<>>,
           OneRow(<<"1", "0", "0", "0">>), OneRow(<<"1", "0", "0", "1">>),
           OneRow(<<"1", "5", "0", "0">>), OneRow(<<"1", "5", "0", "1">>),
           <<Row("1.0", <<"9", "0", "0">>), Row("1.1", <<"7", "0", "0">>)>> }
    ELSE IF profile = "full" THEN {<<>>} \cup {<<row>> : row \in RowSamples}
    ELSE {<<Row("1.0", <<"9", "0", "0">>), Row("1.1", <<"7", "0", "0">>)>>}
CrashFaults(profile) == IF profile = "full" THEN Reasons ELSE {"timeout"}

\* process.env: each credential is "ok", "missing" or "invalid" (not JSON)
Envs ==
    { [play |-> "ok", fb |-> "ok", ga4Id |-> TRUE],
      [play |-> "missing", fb |-> "ok", ga4Id |-> TRUE],
      [play |-> "invalid", fb |-> "ok", ga4Id |-> TRUE],
      [play |-> "ok", fb |-> "missing", ga4Id |-> TRUE],
      [play |-> "ok", fb |-> "invalid", ga4Id |-> TRUE],
      [play |-> "ok", fb |-> "ok", ga4Id |-> FALSE] }

\* req.method and req.query; an absent parameter is the empty string
Methods == {"GET", "POST"}
RangeParams == {<<>>, <<"1">>, <<"0">>, <<"-", "1">>}
CompareParams == {"", "day"}
Requests == [method : Methods, range : RangeParams, compare : CompareParams]
PairRequests == [method : Methods, range : {<<>>}, compare : {""}]

----------------------------------------------------------------------------
(* Local variables of one invocation *)

InitLocals ==
    [ rangeDays |-> 0, compareType |-> "",
      playConsoleRaw |-> NullRaw, ga4Raw |-> NullRaw,
      currentReviews |-> <<>>, previousReviews |-> <<>>,
      currentAvg |-> Zero, previousAvg |-> Zero, reviewTexts |-> <<>>,
      playAuth |-> FALSE,
      now |-> None, currentPeriodStart |-> None, previousPeriodStart |-> None,
      clock |-> None,
      vitalsRaw |-> NullRaw, vitalsIssues |-> <<>>,
      crashCount |-> 0, crashVersions |-> <<>>,
      debugLog |-> <<>> ]

Log(l, entry) == [l EXCEPT !.debugLog = Append(@, entry)]

NoCalls == [reviews |-> 0, vitals |-> 0, ga4 |-> 0]

\* the answer of an upstream call: none yet, a payload, or a fault with its message
NoAnswer == [kind |-> "none", data |-> <<>>, message |-> ""]
Payload(data) == [kind |-> "ok", data |-> data, message |-> ""]
Fault(message) == [kind |-> "fault", data |-> <<>>, message |-> message]
NoReplies == [reviews |-> NoAnswer, vitals |-> NoAnswer, ga4 |-> NoAnswer]

Reqs == DOMAIN pc

\* the state of App after its first render: the initial values of useState,
\* the effect of the mount not yet run
NoData == [fetch |-> 0, range |-> 0, compare |-> ""]
InitialUi ==
    [ data |-> NoData, loading |-> FALSE, error |-> "", debugLog |-> 0,
      rangeDays |-> 7, compareType |-> "week",
      mounted |-> FALSE, fetches |-> <<>> ]

InitWith(R, profile, requests) ==
    /\ ui = InitialUi
    /\ world \in [env : Envs, profile : {profile}]
    /\ pc = [r \in R |-> "start"]
    /\ req \in [R -> requests]
    /\ st = [r \in R |-> InitLocals]
    /\ calls = [r \in R |-> NoCalls]
    /\ reply = [r \in R |-> NoReplies]
    /\ sent = [r \in R |-> <<>>]

Init == InitWith({1}, "full", Requests)

----------------------------------------------------------------------------
(* The handler *)

MethodNotAllowedParsed(r) ==
    /\ pc[r] = "start"
    /\ req[r].method # "GET"
    /\ st' = [st EXCEPT ![r].rangeDays = ParseInt(IF req[r].range = <<>> THEN <<"7">> ELSE req[r].range),
                        ![r].compareType = IF req[r].compare = "" THEN "week" ELSE req[r].compare]
    /\ sent' = [sent EXCEPT ![r] = Append(@, [status |-> 405, body |-> [error |-> "Method not allowed"]])]
    /\ pc' = [pc EXCEPT ![r] = "done"]
    /\ UNCHANGED <<ui, world, req, calls, reply>>
MethodNotAllowedNoReturn(r) ==
    /\ pc[r] = "start"
    /\ req[r].method # "GET"
    /\ sent' = [sent EXCEPT ![r] = Append(@, [status |-> 405, body |-> [error |-> "Method not allowed"]])]
    /\ pc' = [pc EXCEPT ![r] = "play"]
    /\ UNCHANGED <<ui, world, req, st, calls, reply>>
\* lines 5-7: any method but GET is answered 405
MethodNotAllowed(r) ==
    /\ pc[r] = "start"
    /\ req[r].method # "GET"
    /\ sent' = [sent EXCEPT ![r] = Append(@, [status |-> 405, body |-> [error |-> "Method not allowed"]])]
    /\ pc' = [pc EXCEPT ![r] = "done"]
    /\ UNCHANGED <<ui, world, req, st, calls, reply>>

\* lines 9-38: the query parameters and the first log lines
Begin(r) ==
    /\ pc[r] = "start"
    /\ req[r].method = "GET"
    /\ LET rangeDays == ParseInt(IF req[r].range = <<>> THEN <<"7">> ELSE req[r].range)
           compareType == IF req[r].compare = "" THEN "week" ELSE req[r].compare
           l1 == Log(st[r], LogEntry("started", "", 0, 0))
           l2 == Log(l1, LogEntry("params", compareType, rangeDays, 0))
       IN st' = [st EXCEPT ![r] = [l2 EXCEPT !.rangeDays = rangeDays, !.compareType = compareType]]
    /\ pc' = [pc EXCEPT ![r] = "play"]
    /\ UNCHANGED <<ui, world, req, calls, reply, sent>>

\* lines 114-117: the catch of the review block
PlayCatch(l, message) ==
    [Log(l, LogEntry("Play API Error", message, 0, 0)) EXCEPT !.playConsoleRaw = ErrRaw(message)]

\* lines 40-44: the credentials are missing or are not JSON
PlayConfigFault(r) ==
    /\ pc[r] = "play"
    /\ world.env.play # "ok"
    /\ st' = [st EXCEPT ![r] =
                PlayCatch(@, IF world.env.play = "missing" THEN PlayMissingMsg ELSE JsonSyntaxMsg)]
    /\ pc' = [pc EXCEPT ![r] = "vitals"]
    /\ UNCHANGED <<ui, world, req, calls, reply, sent>>

\* lines 45-56: playAuth is set and reviews.list is called
PlayFetch(r) ==
    /\ pc[r] = "play"
    /\ world.env.play = "ok"
    /\ st' = [st EXCEPT ![r] = [Log(@, LogEntry("Fetching reviews", "", 0, 0)) EXCEPT !.playAuth = TRUE]]
    /\ calls' = [calls EXCEPT ![r].reviews = @ + 1]
    /\ pc' = [pc EXCEPT ![r] = "awaitReviews"]
    /\ UNCHANGED <<ui, world, req, reply, sent>>

\* lines 58-112: the locals after reviews.list has returned data, with the
\* clock read as now and then as base
AfterReviews(l, data, now, base) ==
    LET cps == CurrentPeriodStart(now, base, l.rangeDays)
        pps == PreviousPeriodStart(cps, l.rangeDays, l.compareType)
        acc0 == [cur |-> l.currentReviews, prev |-> l.previousReviews,
                 texts |-> l.reviewTexts, thrown |-> FALSE, message |-> ""]
        acc == ForEachReview(acc0, data, 1, now, cps, pps)
        pushed == [l EXCEPT !.playConsoleRaw = DataRaw(data),
                            !.now = now, !.clock = base, !.currentPeriodStart = cps,
                            !.previousPeriodStart = pps,
                            !.currentReviews = acc.cur,
                            !.previousReviews = acc.prev,
                            !.reviewTexts = acc.texts]
    IN IF acc.thrown THEN PlayCatch(pushed, acc.message)
       ELSE LET currentAvg == Average(acc.cur)
                previousAvg == Average(acc.prev)
            IN Log([pushed EXCEPT !.currentAvg = currentAvg,
                                  !.previousAvg = previousAvg,
                                  !.reviewTexts = SortByDateDesc(acc.texts)],
                   LogEntry("Play API success", "", ToFixed2(currentAvg), ToFixed2(previousAvg)))

\* line 53 resolves
PlayReturn(r) ==
    /\ pc[r] = "awaitReviews"
    /\ \E data \in ReviewFeeds(world.profile), now \in Nows(world.profile) :
         \E base \in LaterReads(now) :
            /\ st' = [st EXCEPT ![r] = AfterReviews(@, data, now, base)]
            /\ reply' = [reply EXCEPT ![r].reviews = Payload(data)]
    /\ pc' = [pc EXCEPT ![r] = "vitals"]
    /\ UNCHANGED <<ui, world, req, calls, sent>>

PlayRejectRetry(r) ==
    /\ pc[r] = "awaitReviews"
    /\ \E message \in ReviewFaults(world.profile) :
            /\ st' = [st EXCEPT ![r] = PlayCatch(@, message)]
            /\ reply' = [reply EXCEPT ![r].reviews = Fault(message)]
    /\ pc' = [pc EXCEPT ![r] = IF calls[r].reviews < 2 THEN "play" ELSE "vitals"]
    /\ UNCHANGED <<ui, world, req, calls, sent>>
\* line 53 rejects
PlayReject(r) ==
    /\ pc[r] = "awaitReviews"
    /\ \E message \in ReviewFaults(world.profile) :
            /\ st' = [st EXCEPT ![r] = PlayCatch(@, message)]
            /\ reply' = [reply EXCEPT ![r].reviews = Fault(message)]
    /\ pc' = [pc EXCEPT ![r] = "vitals"]
    /\ UNCHANGED <<ui, world, req, calls, sent>>

\* lines 138-140: no playAuth, the vitals call is skipped
VitalsSkip(r) ==
    /\ pc[r] = "vitals"
    /\ ~st[r].playAuth
    /\ st' = [st EXCEPT ![r].vitalsRaw = ErrRaw("Play Console Auth failed, skipping Vitals API.")]
    /\ pc' = [pc EXCEPT ![r] = "ga4"]
    /\ UNCHANGED <<ui, world, req, calls, reply, sent>>

\* lines 123-130: errors.issues.search is called
VitalsFetch(r) ==
    /\ pc[r] = "vitals"
    /\ st[r].playAuth
    /\ st' = [st EXCEPT ![r] = Log(@, LogEntry("Initializing Vitals", "", 0, 0))]
    /\ calls' = [calls EXCEPT ![r].vitals = @ + 1]
    /\ pc' = [pc EXCEPT ![r] = "awaitVitals"]
    /\ UNCHANGED <<ui, world, req, reply, sent>>

VitalsReturnShared(r) ==
    /\ pc[r] = "awaitVitals"
    /\ \E issues \in VitalsFeeds(world.profile) :
         /\ st' = [q \in Reqs |->
                     IF q = r
                     THEN Log([st[q] EXCEPT !.vitalsRaw = DataRaw(issues), !.vitalsIssues = issues],
                              LogEntry("Vitals API success", "", Len(issues), 0))
                     ELSE [st[q] EXCEPT !.vitalsIssues = issues]]
         /\ reply' = [reply EXCEPT ![r].vitals = Payload(issues)]
    /\ pc' = [pc EXCEPT ![r] = "ga4"]
    /\ UNCHANGED <<ui, world, req, calls, sent>>
VitalsReturnDropped(r) ==
    /\ pc[r] = "awaitVitals"
    /\ \E issues \in VitalsFeeds(world.profile) :
         /\ st' = [st EXCEPT ![r] =
                  Log([@ EXCEPT !.vitalsRaw = DataRaw(issues), !.vitalsIssues = <<>>],
                      LogEntry("Vitals API success", "", 0, 0))]
         /\ reply' = [reply EXCEPT ![r].vitals = Payload(issues)]
    /\ pc' = [pc EXCEPT ![r] = "ga4"]
    /\ UNCHANGED <<ui, world, req, calls, sent>>
\* lines 131-133
VitalsReturn(r) ==
    /\ pc[r] = "awaitVitals"
    /\ \E issues \in VitalsFeeds(world.profile) :
         /\ st' = [st EXCEPT ![r] =
                  Log([@ EXCEPT !.vitalsRaw = DataRaw(issues), !.vitalsIssues = issues],
                      LogEntry("Vitals API success", "", Len(issues), 0))]
         /\ reply' = [reply EXCEPT ![r].vitals = Payload(issues)]
    /\ pc' = [pc EXCEPT ![r] = "ga4"]
    /\ UNCHANGED <<ui, world, req, calls, sent>>

\* lines 134-137
VitalsReject(r) ==
    /\ pc[r] = "awaitVitals"
    /\ \E message \in VitalsFaults(world.profile) :
         /\ st' = [st EXCEPT ![r] =
                  [Log(@, LogEntry("Vitals API Error", message, 0, 0)) EXCEPT !.vitalsRaw = ErrRaw(message)]]
         /\ reply' = [reply EXCEPT ![r].vitals = Fault(message)]
    /\ pc' = [pc EXCEPT ![r] = "ga4"]
    /\ UNCHANGED <<ui, world, req, calls, sent>>

\* lines 178-181: the catch of the crash block
Ga4Catch(l, message) ==
    [Log(l, LogEntry("GA4 API Error", message, 0, 0)) EXCEPT !.ga4Raw = ErrRaw(message)]

\* lines 146-152: a credential or the property id is missing or not JSON
Ga4ConfigFault(r) ==
    /\ pc[r] = "ga4"
    /\ world.env.fb # "ok" \/ ~world.env.ga4Id
    /\ st' = [st EXCEPT ![r] =
                Ga4Catch(@, IF world.env.fb = "missing" THEN FbMissingMsg
                            ELSE IF ~world.env.ga4Id THEN Ga4MissingMsg
                            ELSE JsonSyntaxMsg)]
    /\ pc' = [pc EXCEPT ![r] = "status"]
    /\ UNCHANGED <<ui, world, req, calls, reply, sent>>

\* lines 153-166: runReport is called
Ga4Fetch(r) ==
    /\ pc[r] = "ga4"
    /\ world.env.fb = "ok" /\ world.env.ga4Id
    /\ calls' = [calls EXCEPT ![r].ga4 = @ + 1]
    /\ pc' = [pc EXCEPT ![r] = "awaitGa4"]
    /\ UNCHANGED <<ui, world, req, st, reply, sent>>

\* lines 168-177: the locals after runReport has returned rows
AfterReport(l, rows) ==
    IF \E i \in 1..Len(rows) : rows[i].kind = "null"
    THEN Ga4Catch([l EXCEPT !.ga4Raw = DataRaw(rows)], NullRowMsg)
    ELSE LET crashVersions == IF Len(rows) > 0 THEN SortByCountDesc(MapRows(rows))
                              ELSE l.crashVersions
             crashCount == IF Len(rows) > 0 THEN SumCounts(crashVersions) ELSE l.crashCount
         IN Log([l EXCEPT !.ga4Raw = DataRaw(rows),
                          !.crashVersions = crashVersions,
                          !.crashCount = crashCount],
                LogEntry("GA4 API success", "", crashCount, 0))

\* line 155 resolves
Ga4Return(r) ==
    /\ pc[r] = "awaitGa4"
    /\ \E rows \in CrashFeeds(world.profile) :
         /\ st' = [st EXCEPT ![r] = AfterReport(@, rows)]
         /\ reply' = [reply EXCEPT ![r].ga4 = Payload(rows)]
    /\ pc' = [pc EXCEPT ![r] = "status"]
    /\ UNCHANGED <<ui, world, req, calls, sent>>

\* line 155 rejects
Ga4Reject(r) ==
    /\ pc[r] = "awaitGa4"
    /\ \E message \in CrashFaults(world.profile) :
         /\ st' = [st EXCEPT ![r] = Ga4Catch(@, message)]
         /\ reply' = [reply EXCEPT ![r].ga4 = Fault(message)]
    /\ pc' = [pc EXCEPT ![r] = "status"]
    /\ UNCHANGED <<ui, world, req, calls, sent>>

SnapshotCoupled(l, updatedAt) ==
    LET badReviewCount == CountBad(l.currentReviews)
        reviewStatus == ReviewStatus(l.playConsoleRaw, badReviewCount)
        crashStatus == CrashStatus(l.ga4Raw, l.crashCount)
    IN [ reviews |-> [count |-> badReviewCount,
                      status |-> reviewStatus.status,
                      level |-> reviewStatus.level,
                      average |-> l.currentAvg,
                      previousAverage |-> l.previousAvg,
                      texts |-> l.reviewTexts],
         crashes |-> [count |-> IF l.playConsoleRaw.tag = "error" THEN 0 ELSE l.crashCount,
                      status |-> crashStatus.status,
                      level |-> crashStatus.level,
                      versions |-> l.crashVersions,
                      vitals |-> l.vitalsIssues],
         updatedAt |-> updatedAt,
         debugLog |-> l.debugLog,
         rawData |-> [playConsole |-> l.playConsoleRaw, ga4 |-> l.ga4Raw, vitals |-> l.vitalsRaw] ]

\* lines 213-232: the body of the 200 response
Snapshot(l, updatedAt) ==
    LET badReviewCount == CountBad(l.currentReviews)
        reviewStatus == ReviewStatus(l.playConsoleRaw, badReviewCount)
        crashStatus == CrashStatus(l.ga4Raw, l.crashCount)
    IN [ reviews |-> [count |-> badReviewCount,
                      status |-> reviewStatus.status,
                      level |-> reviewStatus.level,
                      average |-> l.currentAvg,
                      previousAverage |-> l.previousAvg,
                      texts |-> l.reviewTexts],
         crashes |-> [count |-> l.crashCount,
                      status |-> crashStatus.status,
                      level |-> crashStatus.level,
                      versions |-> l.crashVersions,
                      vitals |-> l.vitalsIssues],
         updatedAt |-> updatedAt,
         debugLog |-> l.debugLog,
         rawData |-> [playConsole |-> l.playConsoleRaw, ga4 |-> l.ga4Raw, vitals |-> l.vitalsRaw] ]

\* lines 183-232: the status is determined and the snapshot is sent
Respond(r) ==
    /\ pc[r] = "status"
    /\ \E updatedAt \in (IF st[r].clock = None THEN Nows(world.profile) ELSE LaterReads(st[r].clock)) :
         sent' = [sent EXCEPT ![r] = Append(@, [status |-> 200, body |-> Snapshot(st[r], updatedAt)])]
    /\ pc' = [pc EXCEPT ![r] = "done"]
    /\ UNCHANGED <<ui, world, req, st, calls, reply>>

Next ==
    \/ \E r \in Reqs : MethodNotAllowed(r)
    \/ \E r \in Reqs : Begin(r)
    \/ \E r \in Reqs : PlayConfigFault(r)
    \/ \E r \in Reqs : PlayFetch(r)
    \/ \E r \in Reqs : PlayReturn(r)
    \/ \E r \in Reqs : PlayReject(r)
    \/ \E r \in Reqs : VitalsSkip(r)
    \/ \E r \in Reqs : VitalsFetch(r)
    \/ \E r \in Reqs : VitalsReturn(r)
    \/ \E r \in Reqs : VitalsReject(r)
    \/ \E r \in Reqs : Ga4ConfigFault(r)
    \/ \E r \in Reqs : Ga4Fetch(r)
    \/ \E r \in Reqs : Ga4Return(r)
    \/ \E r \in Reqs : Ga4Reject(r)
    \/ \E r \in Reqs : Respond(r)

Spec == Init /\ [][Next]_vars

\* two requests handled by the same process, interleaved at their awaits
InitPair == InitWith({1, 2}, "pair", PairRequests)
SpecPair == InitPair /\ [][Next]_vars

\* one request against sources whose counts lie around the thresholds
InitLevels == InitWith({1}, "levels", Requests)
SpecLevels == InitLevels /\ [][Next]_vars

\* one request against a crash-event source that returns up to MaxRows rows
InitCrashes == InitWith({1}, "crashes", Requests)
SpecCrashes == InitCrashes /\ [][Next]_vars

\* one request against a review source whose reviews carry texts
InitTexts == InitWith({1}, "texts", Requests)
SpecTexts == InitTexts /\ [][Next]_vars

\* one request whose review source returns reviews dated after the clock
InitFuture == InitWith({1}, "future", Requests)
SpecFuture == InitFuture /\ [][Next]_vars

\* one request whose steps and whose upstream answers all come in the end
InitLive == InitWith({1}, "pair", Requests)
SpecLive == InitLive /\ [][Next]_vars /\ WF_vars(Next)

----------------------------------------------------------------------------
(* What a finished request shows *)

Responded(r) == pc[r] = "done" /\ Len(sent[r]) > 0
Status(r) == sent[r][Len(sent[r])].status
Body(r) == sent[r][Len(sent[r])].body
Got200(r) == Responded(r) /\ Status(r) = 200

Levels == {"normal", "warning", "critical"}

\* the review source (the crash-event source) ended as Err: a fault was
\* raised somewhere in its block and its catch ran
ReviewsErr(r) == st[r].playConsoleRaw.tag = "error"
CrashesErr(r) == st[r].ga4Raw.tag = "error"

----------------------------------------------------------------------------
(* Claims *)

\* C1: whenever the review fetch (the crash-event fetch) raises a fault,
\* whatever its reason string, the snapshot's reviews.level (crashes.level)
\* is warning and its status is the lookup-failed label.
C1_FailedFetchIsWarning ==
    \A r \in Reqs : Got200(r) =>
        /\ reply[r].reviews.kind = "fault" =>
              Body(r).reviews.level = "warning" /\ Body(r).reviews.status = StatusFailed
        /\ reply[r].ga4.kind = "fault" =>
              Body(r).crashes.level = "warning" /\ Body(r).crashes.status = StatusFailed

\* C2: whenever a source ends as Err, wherever in its block the fault was
\* raised, the snapshot carries the zero defaults of that metric.
C2_ErrGivesZeroDefaults ==
    \A r \in Reqs : Got200(r) =>
        /\ ReviewsErr(r) =>
              /\ Body(r).reviews.count = 0
              /\ Body(r).reviews.average = Zero
              /\ Body(r).reviews.previousAverage = Zero
              /\ Body(r).reviews.texts = <<>>
        /\ CrashesErr(r) =>
              /\ Body(r).crashes.count = 0
              /\ Body(r).crashes.versions = <<>>

\* C3: every GET request, whatever the outcomes of the two sources, ends
\* with a 200 snapshot whose two levels are defined, and when both sources
\* are Err both levels are warning.
C3_TotalSnapshot ==
    \A r \in Reqs : (pc[r] = "done" /\ req[r].method = "GET") =>
        /\ Got200(r)
        /\ Body(r).reviews.level \in Levels
        /\ Body(r).crashes.level \in Levels
        /\ (ReviewsErr(r) /\ CrashesErr(r)) =>
              Body(r).reviews.level = "warning" /\ Body(r).crashes.level = "warning"

\* C4: the crash-event fetch is started without waiting for the review
\* fetch: while the review fetch is in flight, the crash-event fetch of a
\* request whose crash-event credentials are usable has been issued.
C4_FetchesConcurrent ==
    \A r \in Reqs :
        (pc[r] = "awaitReviews" /\ world.env.fb = "ok" /\ world.env.ga4Id) =>
            calls[r].ga4 > 0

\* C6: a request whose rangeDays is <= 0 is rejected before any upstream
\* fetch is issued, and no 200 snapshot is produced for it.
C6_InvalidRangeRejected ==
    \A r \in Reqs :
        (pc[r] # "start" /\ req[r].method = "GET" /\ st[r].rangeDays <= 0) =>
            /\ calls[r] = NoCalls
            /\ \A i \in 1..Len(sent[r]) : sent[r][i].status # 200

----------------------------------------------------------------------------
(* The fetched reviews, counted from the answer of the review source *)

\* the answer of the review source of request r, and its records that have
\* a rating and a timestamp
Feed(r) == reply[r].reviews.data
Instant(rv) == rv.seconds * MsPerSec
WellFormed(rv) == rv.kind = "review" /\ rv.hasComment /\ rv.rating # 0 /\ rv.seconds # None
ValidIdx(r) == {i \in 1..Len(Feed(r)) : WellFormed(Feed(r)[i])}

\* the records inside the current window [currentPeriodStart, now] and
\* inside the previous window [previousPeriodStart, currentPeriodStart)
CurIdx(r) ==
    {i \in ValidIdx(r) : st[r].currentPeriodStart <= Instant(Feed(r)[i])
                         /\ Instant(Feed(r)[i]) <= st[r].now}
PrevIdx(r) ==
    {i \in ValidIdx(r) : st[r].previousPeriodStart <= Instant(Feed(r)[i])
                         /\ Instant(Feed(r)[i]) < st[r].currentPeriodStart}

RECURSIVE RatingSum(_, _)
RatingSum(feed, idx) ==
    IF idx = {} THEN 0
    ELSE LET i == CHOOSE j \in idx : TRUE
         IN feed[i].rating + RatingSum(feed, idx \ {i})

\* the review block of request r ran to its end: the source is Ok
ReviewsOk(r) == reply[r].reviews.kind = "ok" /\ st[r].playConsoleRaw.tag = "data"

\* C5: a failure of one source is not attributed to the other: two requests
\* with the same crash-event answer show the same crashes.count, level and
\* versions whatever the review source did, two requests with the same
\* review answer, clock and parameters show the same reviews metric whatever
\* the crash-event source did, and the rawData entry of a failed fetch holds
\* its reason string.
C5_NoCrossAttribution ==
    \A a \in Reqs, b \in Reqs : (Got200(a) /\ Got200(b)) =>
        /\ reply[a].ga4 = reply[b].ga4 =>
              /\ Body(a).crashes.count = Body(b).crashes.count
              /\ Body(a).crashes.level = Body(b).crashes.level
              /\ Body(a).crashes.versions = Body(b).crashes.versions
        /\ ( /\ reply[a].reviews = reply[b].reviews
             /\ st[a].now = st[b].now /\ st[a].clock = st[b].clock
             /\ st[a].rangeDays = st[b].rangeDays
             /\ st[a].compareType = st[b].compareType ) =>
              Body(a).reviews = Body(b).reviews
        /\ reply[a].reviews.kind = "fault" =>
              Body(a).rawData.playConsole = ErrRaw(reply[a].reviews.message)
        /\ reply[a].ga4.kind = "fault" =>
              Body(a).rawData.ga4 = ErrRaw(reply[a].ga4.message)

\* C5 witness: one request whose review fetch failed and one whose review
\* fetch succeeded got the same crash rows, and both snapshots are out.
C5_Witness ==
    /\ Cardinality(Reqs) = 2
    /\ \E a \in Reqs, b \in Reqs :
        /\ Got200(a) /\ Got200(b)
        /\ reply[a].reviews.kind = "fault" /\ reply[b].reviews.kind = "ok"
        /\ reply[a].ga4.kind = "ok" /\ reply[a].ga4 = reply[b].ga4
        /\ Body(a).crashes.count > 0
        /\ Body(a).rawData.playConsole.error = "timeout"

\* C7: for rangeDays > 0 in both compare modes the previous window ends
\* exactly where the current window starts and the two do not overlap: the
\* previous list holds exactly the records in [previousPeriodStart,
\* currentPeriodStart), the current list exactly those in
\* [currentPeriodStart, now], a record at currentPeriodStart being in the
\* current list only, and no record is in both lists.
C7_WindowsDisjoint ==
    \A r \in Reqs : (ReviewsOk(r) /\ st[r].rangeDays > 0) =>
        /\ st[r].previousPeriodStart < st[r].currentPeriodStart
        /\ Len(st[r].previousReviews) = Cardinality(PrevIdx(r))
        /\ Len(st[r].currentReviews) = Cardinality(CurIdx(r))
        /\ Len(st[r].currentReviews) + Len(st[r].previousReviews) <= Cardinality(ValidIdx(r))

\* C7 witness: a record dated exactly currentPeriodStart went to the
\* current list while another record went to the previous list.
C7_Witness ==
    \E r \in Reqs :
        /\ ReviewsOk(r) /\ st[r].rangeDays > 0 /\ Got200(r)
        /\ \E i \in ValidIdx(r) : Instant(Feed(r)[i]) = st[r].currentPeriodStart
        /\ Len(st[r].currentReviews) = 1 /\ Len(st[r].previousReviews) = 1

\* C8: the current window is [now - rangeDays days, now]; the previous
\* window starts rangeDays days before currentPeriodStart in day mode and
\* exactly 7 days before it in week mode.
C8_WindowBounds ==
    \A r \in Reqs : (st[r].now # None /\ st[r].rangeDays > 0) =>
        /\ st[r].currentPeriodStart = st[r].now - st[r].rangeDays * DayMs
        /\ st[r].previousPeriodStart =
              st[r].currentPeriodStart
                - (IF st[r].compareType = "day" THEN st[r].rangeDays ELSE WeekDays) * DayMs

\* C9: reviews.count is the number of fetched records with a rating of 1 or
\* 2 and a timestamp inside the current window; records without a rating or
\* without a timestamp are in neither list of ratings.
C9_BadCount ==
    \A r \in Reqs : (Got200(r) /\ ReviewsOk(r)) =>
        /\ Body(r).reviews.count =
              Cardinality({i \in CurIdx(r) : Feed(r)[i].rating \in {1, 2}})
        /\ Len(st[r].currentReviews) + Len(st[r].previousReviews)
              = Cardinality(CurIdx(r) \cup PrevIdx(r))

\* C9 witness: the scenario of the specification (ratings 1 and 5 a day
\* ago, rating 2 ten days ago, rangeDays 7, week mode) gives count 1.
C9_Witness ==
    \E r \in Reqs :
        /\ Got200(r) /\ ReviewsOk(r)
        /\ Feed(r) = ScenarioFeed
        /\ st[r].rangeDays = 7 /\ st[r].compareType = "week"
        /\ Body(r).reviews.count = 1
        /\ FracEq(Body(r).reviews.average, Frac(3, 1))

\* C10: reviews.average is sum/count of the ratings of the current window
\* and reviews.previousAverage that of the previous window, each 0 when its
\* window holds no rating; with no review in the current window average = 0,
\* count = 0 and texts = [] in a 200 snapshot.
C10_Averages ==
    \A r \in Reqs : (Got200(r) /\ ReviewsOk(r)) =>
        /\ IF CurIdx(r) = {} THEN /\ Body(r).reviews.average = Zero
                                  /\ Body(r).reviews.count = 0
                                  /\ Body(r).reviews.texts = <<>>
           ELSE FracEq(Body(r).reviews.average,
                       Frac(RatingSum(Feed(r), CurIdx(r)), Cardinality(CurIdx(r))))
        /\ IF PrevIdx(r) = {} THEN Body(r).reviews.previousAverage = Zero
           ELSE FracEq(Body(r).reviews.previousAverage,
                       Frac(RatingSum(Feed(r), PrevIdx(r)), Cardinality(PrevIdx(r))))

\* C10 witness: a snapshot whose current window holds two ratings with the
\* average 3/2.
C10_Witness ==
    \E r \in Reqs :
        /\ Got200(r) /\ ReviewsOk(r)
        /\ Cardinality(CurIdx(r)) = 2
        /\ FracEq(Body(r).reviews.average, Frac(3, 2))

----------------------------------------------------------------------------
(* Levels *)

\* the crash block of request r ran to its end: the source is Ok
CrashesOk(r) == reply[r].ga4.kind = "ok" /\ st[r].ga4Raw.tag = "data"

\* the level table of the review metric and of the crash metric
ReviewLevelOf(count) ==
    IF count > 6 THEN "critical" ELSE IF count >= 5 THEN "warning" ELSE "normal"
CrashLevelOf(count) ==
    IF count > 1500 THEN "critical" ELSE IF count >= 1001 THEN "warning" ELSE "normal"

\* the fetched records with one or two stars inside the current window
BadIdx(r) == {i \in CurIdx(r) : Feed(r)[i].rating \in {1, 2}}

\* C11: when the review source is Ok the review level depends on badCount
\* only: above 6 critical, 5 or 6 warning, below 5 normal.
C11_ReviewLevel ==
    \A r \in Reqs : (Got200(r) /\ ReviewsOk(r)) =>
        /\ Body(r).reviews.count = Cardinality(BadIdx(r))
        /\ Body(r).reviews.level = ReviewLevelOf(Cardinality(BadIdx(r)))

\* C11 witness: seven bad reviews in the current window, level critical.
C11_Witness ==
    \E r \in Reqs :
        /\ Got200(r) /\ ReviewsOk(r)
        /\ Cardinality(BadIdx(r)) = 7
        /\ Body(r).reviews.level = "critical"

\* C12: when the crash-event source is Ok the crash level depends on the
\* total count only: above 1500 critical, 1001 to 1500 warning, below 1001
\* normal.
C12_CrashLevel ==
    \A r \in Reqs : (Got200(r) /\ CrashesOk(r)) =>
        Body(r).crashes.level = CrashLevelOf(Body(r).crashes.count)

\* C12 witness: a report of 1001 events, level warning.
C12_Witness ==
    \E r \in Reqs :
        /\ Got200(r) /\ CrashesOk(r)
        /\ Body(r).crashes.count = 1001
        /\ Body(r).crashes.level = "warning"

----------------------------------------------------------------------------
(* The crash metric, counted from the answer of the crash-event source *)

Rows(r) == reply[r].ga4.data
VersionName(row) == IF row.version = "" THEN "Unknown" ELSE row.version
EventCount(row) == ParseInt(IF row.value = <<>> THEN <<"0">> ELSE row.value)

RECURSIVE EventSum(_, _)
EventSum(rows, idx) ==
    IF idx = {} THEN 0
    ELSE LET i == CHOOSE j \in idx : TRUE
         IN EventCount(rows[i]) + EventSum(rows, idx \ {i})

RowsOfVersion(r, v) == {i \in 1..Len(Rows(r)) : VersionName(Rows(r)[i]) = v}

\* C13: crashes.versions holds exactly one entry per distinct appVersion,
\* its count the sum of eventCount over all rows of that version, and
\* crashes.count is the sum of eventCount over all rows.
C13_GroupedByVersion ==
    \A r \in Reqs : (Got200(r) /\ CrashesOk(r)) =>
        LET versions == Body(r).crashes.versions
        IN /\ \A i \in 1..Len(versions), j \in 1..Len(versions) :
                 versions[i].version = versions[j].version => i = j
           /\ {versions[i].version : i \in 1..Len(versions)}
                 = {VersionName(Rows(r)[i]) : i \in 1..Len(Rows(r))}
           /\ \A i \in 1..Len(versions) :
                 versions[i].count = EventSum(Rows(r), RowsOfVersion(r, versions[i].version))
           /\ Body(r).crashes.count = EventSum(Rows(r), 1..Len(Rows(r)))

\* C14: crashes.versions is ordered by count descending, and entries of
\* equal count keep the order of their rows: versions is the list of rows
\* rearranged by a permutation p that never puts a later row before an
\* earlier row of the same count.
C14_SortedStable ==
    \A r \in Reqs : (Got200(r) /\ CrashesOk(r)) =>
        LET versions == Body(r).crashes.versions
            n == Len(Rows(r))
        IN /\ Len(versions) = n
           /\ \A i \in 1..n, j \in 1..n : i < j => versions[i].count >= versions[j].count
           /\ \E p \in [1..n -> 1..n] :
                /\ \A i \in 1..n, j \in 1..n : p[i] = p[j] => i = j
                /\ \A i \in 1..n :
                     /\ versions[i].version = VersionName(Rows(r)[p[i]])
                     /\ versions[i].count = EventCount(Rows(r)[p[i]])
                /\ \A i \in 1..n, j \in 1..n :
                     (i < j /\ versions[i].count = versions[j].count) => p[i] < p[j]

\* C14 witness: rows 1.2 (700), 1.1 (700) in this order are shown in this
\* order.
C14_Witness ==
    \E r \in Reqs :
        /\ Got200(r) /\ CrashesOk(r)
        /\ Len(Rows(r)) = 2
        /\ Rows(r)[1].version = "1.2" /\ Rows(r)[2].version = "1.1"
        /\ Body(r).crashes.versions[1].version = "1.2"
        /\ Body(r).crashes.versions[2].version = "1.1"

----------------------------------------------------------------------------
(* The review texts *)

\* texts lists the records of idx, one entry each, by date descending and
\* records of equal date in the order of the fetched list
ListsExactly(r, texts, idx) ==
    /\ Len(texts) = Cardinality(idx)
    /\ \E p \in [1..Len(texts) -> idx] :
         /\ \A i \in 1..Len(texts), j \in 1..Len(texts) : p[i] = p[j] => i = j
         /\ \A i \in 1..Len(texts) :
              /\ texts[i].id = Feed(r)[p[i]].id
              /\ texts[i].rating = Feed(r)[p[i]].rating
              /\ texts[i].date = Instant(Feed(r)[p[i]])
         /\ \A i \in 1..Len(texts), j \in 1..Len(texts) : i < j =>
              /\ texts[i].date >= texts[j].date
              /\ texts[i].date = texts[j].date => p[i] < p[j]

\* C15 as stated: texts has exactly one entry for each review of the
\* current window whose text is not the empty string, by date descending,
\* equal dates in input order.
C15_TextsOfNonEmpty ==
    \A r \in Reqs : (Got200(r) /\ ReviewsOk(r)) =>
        ListsExactly(r, Body(r).reviews.texts, {i \in CurIdx(r) : Feed(r)[i].text # <<>>})

\* C15 amended: texts has exactly one entry for each review of the current
\* window whose text is not empty once trimmed of white space, by date
\* descending, equal dates in input order.
C15_TextsOfNonBlank ==
    \A r \in Reqs : (Got200(r) /\ ReviewsOk(r)) =>
        ListsExactly(r, Body(r).reviews.texts, {i \in CurIdx(r) : Trim(Feed(r)[i].text) # <<>>})

\* C15 witness: two reviews of the same date, both with text, are listed in
\* the order they were fetched.
C15_Witness ==
    \E r \in Reqs :
        /\ Got200(r) /\ ReviewsOk(r)
        /\ Len(Feed(r)) = 2 /\ Feed(r)[1].id = "t2" /\ Feed(r)[2].id = "t1"
        /\ Len(Body(r).reviews.texts) = 2
        /\ Body(r).reviews.texts[1].id = "t2" /\ Body(r).reviews.texts[2].id = "t1"

----------------------------------------------------------------------------
(* Fetch attempts *)

PlayUsable == world.env.play = "ok"
Ga4Usable == world.env.fb = "ok" /\ world.env.ga4Id

\* C16 as stated: every invocation calls the review source and the
\* crash-event source exactly once: never a second time, and never zero
\* times when it produces a snapshot.
C16_ExactlyOneAttempt ==
    \A r \in Reqs :
        /\ calls[r].reviews <= 1 /\ calls[r].ga4 <= 1
        /\ Got200(r) => (calls[r].reviews = 1 /\ calls[r].ga4 = 1)

\* C16 amended: no source is called a second time, and a request that
\* produces a snapshot has called a source once when the credentials of
\* that source are present and parse, and not at all otherwise.
C16_AtMostOneAttempt ==
    \A r \in Reqs :
        /\ calls[r].reviews <= 1 /\ calls[r].ga4 <= 1
        /\ Got200(r) =>
              /\ calls[r].reviews = (IF PlayUsable THEN 1 ELSE 0)
              /\ calls[r].ga4 = (IF Ga4Usable THEN 1 ELSE 0)

\* C16 witness: both fetches failed and each source was called once.
C16_Witness ==
    \E r \in Reqs :
        /\ Got200(r)
        /\ reply[r].reviews.kind = "fault" /\ reply[r].ga4.kind = "fault"
        /\ calls[r].reviews = 1 /\ calls[r].ga4 = 1

----------------------------------------------------------------------------
(* A request on its own *)

\* the locals of an invocation that handles req[r] alone, from start to the
\* status step, given the environment, the answers of its upstream calls
\* and its readings of the clock
AloneLocals(r) ==
    LET rangeDays == ParseInt(IF req[r].range = <<>> THEN <<"7">> ELSE req[r].range)
        compareType == IF req[r].compare = "" THEN "week" ELSE req[r].compare
        begun == [Log(Log(InitLocals, LogEntry("started", "", 0, 0)),
                      LogEntry("params", compareType, rangeDays, 0))
                    EXCEPT !.rangeDays = rangeDays, !.compareType = compareType]
        fetching == [Log(begun, LogEntry("Fetching reviews", "", 0, 0)) EXCEPT !.playAuth = TRUE]
        reviewed ==
            IF world.env.play = "missing" THEN PlayCatch(begun, PlayMissingMsg)
            ELSE IF world.env.play = "invalid" THEN PlayCatch(begun, JsonSyntaxMsg)
            ELSE IF reply[r].reviews.kind = "ok"
            THEN AfterReviews(fetching, reply[r].reviews.data, st[r].now, st[r].clock)
            ELSE PlayCatch(fetching, reply[r].reviews.message)
        searching == Log(reviewed, LogEntry("Initializing Vitals", "", 0, 0))
        issues == reply[r].vitals.data
        vitalsDone ==
            IF ~reviewed.playAuth
            THEN [reviewed EXCEPT !.vitalsRaw = ErrRaw("Play Console Auth failed, skipping Vitals API.")]
            ELSE IF reply[r].vitals.kind = "ok"
            THEN Log([searching EXCEPT !.vitalsRaw = DataRaw(issues), !.vitalsIssues = issues],
                     LogEntry("Vitals API success", "", Len(issues), 0))
            ELSE [Log(searching, LogEntry("Vitals API Error", reply[r].vitals.message, 0, 0))
                    EXCEPT !.vitalsRaw = ErrRaw(reply[r].vitals.message)]
    IN IF world.env.fb = "missing" THEN Ga4Catch(vitalsDone, FbMissingMsg)
       ELSE IF ~world.env.ga4Id THEN Ga4Catch(vitalsDone, Ga4MissingMsg)
       ELSE IF world.env.fb = "invalid" THEN Ga4Catch(vitalsDone, JsonSyntaxMsg)
       ELSE IF reply[r].ga4.kind = "ok" THEN AfterReport(vitalsDone, reply[r].ga4.data)
       ELSE Ga4Catch(vitalsDone, reply[r].ga4.message)

\* C17: whatever the interleaving of two requests, the snapshot of each is
\* the snapshot it produces alone with the same upstream answers and the
\* same clock readings.
C17_RequestsIsolated ==
    \A r \in Reqs : Got200(r) =>
        Body(r) = Snapshot(AloneLocals(r), Body(r).updatedAt)

\* C17 witness: two requests of one run have both been answered 200, the
\* review fetch of one having failed and that of the other not.
C17_Witness ==
    /\ Cardinality(Reqs) = 2
    /\ \E a \in Reqs, b \in Reqs :
        /\ Got200(a) /\ Got200(b)
        /\ reply[a].reviews.kind = "fault" /\ reply[b].reviews.kind = "ok"
        /\ reply[a].vitals.kind = "fault" /\ reply[b].vitals.kind = "ok"
        /\ Body(a).debugLog # Body(b).debugLog

\* C18: crashes.vitals is what the vitals source returned, empty when that
\* call failed or was skipped, and whether the vitals call succeeds, fails
\* or is skipped changes neither crashes.count, crashes.level nor the
\* reviews metric.
C18_VitalsPassThrough ==
    \A a \in Reqs : Got200(a) =>
        /\ Body(a).crashes.vitals =
              (IF reply[a].vitals.kind = "ok" THEN reply[a].vitals.data ELSE <<>>)
        /\ \A b \in Reqs : (Got200(b) /\ reply[a].vitals # reply[b].vitals) =>
              /\ reply[a].ga4 = reply[b].ga4 =>
                    /\ Body(a).crashes.count = Body(b).crashes.count
                    /\ Body(a).crashes.level = Body(b).crashes.level
              /\ ( /\ reply[a].reviews = reply[b].reviews
                   /\ st[a].now = st[b].now /\ st[a].clock = st[b].clock
                   /\ st[a].rangeDays = st[b].rangeDays
                   /\ st[a].compareType = st[b].compareType ) =>
                    Body(a).reviews = Body(b).reviews

\* C18 witness: of two requests with the same review and crash answers the
\* vitals call of one returned an issue and that of the other failed.
C18_Witness ==
    /\ Cardinality(Reqs) = 2
    /\ \E a \in Reqs, b \in Reqs :
        /\ Got200(a) /\ Got200(b)
        /\ reply[a].vitals.kind = "ok" /\ reply[b].vitals.kind = "fault"
        /\ reply[a].ga4.kind = "ok" /\ reply[a].ga4 = reply[b].ga4
        /\ reply[a].reviews.kind = "ok" /\ reply[a].reviews = reply[b].reviews
        /\ Body(a).crashes.vitals = <<"issue-1">> /\ Body(b).crashes.vitals = <<>>

----------------------------------------------------------------------------
(* The dashboard client, src/unnamed/part_000 lines 171-311 *)

\* the options of the two selects
RangeOptions == {1, 3, 7, 14, 30}
CompareOptions == {"day", "week"}

\* err.message of a failed fetch
HttpErrorMsg == "HTTP Error"
NetworkErrorMsg == "Failed to fetch"

\* ui.fetches[f] is the f-th call of fetch: the query it carried and whether
\* its promise is still pending
InFlight(u) == {f \in DOMAIN u.fetches : u.fetches[f].state = "inflight"}

\* lines 180-185: fetchData up to its first await, called in a render whose
\* rangeDays and compareType are those of u
FetchData(u) ==
    [u EXCEPT !.loading = TRUE, !.error = "", !.debugLog = 0,
              !.fetches = Append(@, [range |-> u.rangeDays, compare |-> u.compareType,
                                     state |-> "inflight"])]

\* lines 209-211: the effect of the first render
Mount ==
    /\ ~ui.mounted
    /\ Len(ui.fetches) < MaxFetches
    /\ ui' = [FetchData(ui) EXCEPT !.mounted = TRUE]
    /\ UNCHANGED <<world, pc, req, st, calls, reply, sent>>

\* lines 282-285 and 209-211: another range is selected; the render that
\* follows runs the effect, whose fetchData sees the new value
SetRangeDays ==
    /\ ui.mounted
    /\ Len(ui.fetches) < MaxFetches
    /\ \E v \in RangeOptions \ {ui.rangeDays} :
         ui' = FetchData([ui EXCEPT !.rangeDays = v])
    /\ UNCHANGED <<world, pc, req, st, calls, reply, sent>>

\* lines 294-297 and 209-211
SetCompareType ==
    /\ ui.mounted
    /\ Len(ui.fetches) < MaxFetches
    /\ \E v \in CompareOptions \ {ui.compareType} :
         ui' = FetchData([ui EXCEPT !.compareType = v])
    /\ UNCHANGED <<world, pc, req, st, calls, reply, sent>>

\* lines 304-306: the Refresh button, disabled while loading
Refresh ==
    /\ ui.mounted
    /\ ~ui.loading
    /\ Len(ui.fetches) < MaxFetches
    /\ ui' = FetchData(ui)
    /\ UNCHANGED <<world, pc, req, st, calls, reply, sent>>

\* lines 199-201 and 204-206: a fetch is answered 200; its body is shown
FetchOk ==
    /\ \E f \in InFlight(ui) :
         ui' = [ui EXCEPT !.data = [fetch |-> f, range |-> ui.fetches[f].range,
                                    compare |-> ui.fetches[f].compare],
                          !.debugLog = f,
                          !.loading = FALSE,
                          !.fetches[f].state = "ok"]
    /\ UNCHANGED <<world, pc, req, st, calls, reply, sent>>

\* lines 188-192 and 202-206: a fetch is answered with an error status and
\* a JSON body that carries a debugLog
FetchHttpError ==
    /\ \E f \in InFlight(ui) :
         ui' = [ui EXCEPT !.debugLog = f,
                          !.error = HttpErrorMsg,
                          !.loading = FALSE,
                          !.fetches[f].state = "failed"]
    /\ UNCHANGED <<world, pc, req, st, calls, reply, sent>>

\* lines 185 and 202-206: the promise of fetch is rejected
FetchRejected ==
    /\ \E f \in InFlight(ui) :
         ui' = [ui EXCEPT !.error = NetworkErrorMsg,
                          !.loading = FALSE,
                          !.fetches[f].state = "failed"]
    /\ UNCHANGED <<world, pc, req, st, calls, reply, sent>>

NextClient ==
    \/ Mount
    \/ SetRangeDays
    \/ SetCompareType
    \/ Refresh
    \/ FetchOk
    \/ FetchHttpError
    \/ FetchRejected

\* the client alone: no request of the handler is followed
InitClient ==
    /\ InitWith({}, "pair", Requests)
    /\ world.env = [play |-> "ok", fb |-> "ok", ga4Id |-> TRUE]
SpecClient == InitClient /\ [][NextClient]_vars

\* C20: a selection having changed while an earlier fetch was in flight,
\* once every fetch has completed the data on display is the response to
\* the request that carried the rangeDays and compareType selected last
\* (that request having been answered 200).
C20_LatestSelectionShown ==
    ( /\ Len(ui.fetches) >= 2
      /\ InFlight(ui) = {}
      /\ ui.fetches[Len(ui.fetches)].state = "ok" ) =>
        /\ ui.data.range = ui.rangeDays
        /\ ui.data.compare = ui.compareType

\* C21: whenever the loading flag of the dashboard client is false, no
\* fetch started by fetchData is still in flight: the flag stays true from
\* the start of a fetch until every outstanding fetch has succeeded or failed.
C21_LoadingCoversFetches ==
    ~ui.loading => InFlight(ui) = {}

----------------------------------------------------------------------------
(* Reviews dated after the clock *)

\* the fetched reviews of request r without those dated after its now
NotLater(r) ==
    LET Past(rv) == ~(rv.seconds # None /\ Instant(rv) > st[r].now)
    IN SelectSeq(Feed(r), Past)

\* the three arrays the pass over the reviews fills from a list of reviews,
\* with the window bounds of request r
Pushed(r, reviews) ==
    ForEachReview([cur |-> <<>>, prev |-> <<>>, texts |-> <<>>, thrown |-> FALSE, message |-> ""],
                  reviews, 1, st[r].now, st[r].currentPeriodStart, st[r].previousPeriodStart)

\* C22: a review dated later than the now of the request is in neither
\* window: count, average, previousAverage and texts are those of the
\* fetched reviews without the later ones.
C22_LaterReviewInNoWindow ==
    \A r \in Reqs : (Got200(r) /\ ReviewsOk(r)) =>
        LET acc == Pushed(r, NotLater(r))
        IN /\ Body(r).reviews.count = CountBad(acc.cur)
           /\ Body(r).reviews.average = Average(acc.cur)
           /\ Body(r).reviews.previousAverage = Average(acc.prev)
           /\ Body(r).reviews.texts = SortByDateDesc(acc.texts)

----------------------------------------------------------------------------
(* Requests with another method *)

\* C23: a request whose method is not GET is answered 405, no call is made
\* to the review, vitals or crash-event source for it, and its query is not
\* read: no local of the invocation is set from it and the response is the
\* same for every query.
C23_NonGetRejected ==
    \A r \in Reqs : req[r].method # "GET" =>
        /\ calls[r] = NoCalls
        /\ reply[r] = NoReplies
        /\ st[r] = InitLocals
        /\ pc[r] \in {"start", "done"}
        /\ pc[r] = "start" => sent[r] = <<>>
        /\ pc[r] = "done" =>
              sent[r] = <<[status |-> 405, body |-> [error |-> "Method not allowed"]]>>

\* C23 witness: a POST with a range and a compare parameter has been
\* answered 405.
C23_Witness ==
    \E r \in Reqs :
        /\ req[r].method = "POST" /\ req[r].range = <<"1">> /\ req[r].compare = "day"
        /\ pc[r] = "done" /\ Status(r) = 405

----------------------------------------------------------------------------
(* The status step of the other three handlers of the repository *)

\* src/server.ts lines 116-127 and 129-140
ServerReviewStatus(playConsoleRaw, reviewCount) ==
    IF HasError(playConsoleRaw) THEN [status |-> StatusFailed, level |-> "warning"]
    ELSE IF reviewCount > 6 THEN [status |-> StatusCritical, level |-> "critical"]
    ELSE IF reviewCount >= 5 THEN [status |-> StatusWarning, level |-> "warning"]
    ELSE [status |-> StatusNormal, level |-> "normal"]
ServerCrashStatus(ga4Raw, crashCount) ==
    IF HasError(ga4Raw) THEN [status |-> StatusFailed, level |-> "warning"]
    ELSE IF crashCount > 1500 THEN [status |-> StatusCritical, level |-> "critical"]
    ELSE IF crashCount >= 1001 THEN [status |-> StatusWarning, level |-> "warning"]
    ELSE [status |-> StatusNormal, level |-> "normal"]

\* src/src/App.tsx lines 295-303 and 305-313: a failed source has thrown
\* before this step
AppReviewStatus(reviewCount) ==
    IF reviewCount > 6 THEN [status |-> StatusCritical, level |-> "critical"]
    ELSE IF reviewCount >= 5 THEN [status |-> StatusWarning, level |-> "warning"]
    ELSE [status |-> StatusNormal, level |-> "normal"]
AppCrashStatus(crashCount) ==
    IF crashCount > 1500 THEN [status |-> StatusCritical, level |-> "critical"]
    ELSE IF crashCount >= 1001 THEN [status |-> StatusWarning, level |-> "warning"]
    ELSE [status |-> StatusNormal, level |-> "normal"]

\* src/unnamed/part_000 lines 101-109 and 111-119
PartReviewStatus(reviewCount) ==
    IF reviewCount > 6 THEN [status |-> StatusCritical, level |-> "critical"]
    ELSE IF reviewCount >= 5 THEN [status |-> StatusWarning, level |-> "warning"]
    ELSE [status |-> StatusNormal, level |-> "normal"]
PartCrashStatusOffByOne(crashCount) ==
    IF crashCount > 1500 THEN [status |-> StatusCritical, level |-> "critical"]
    ELSE IF crashCount > 1001 THEN [status |-> StatusWarning, level |-> "warning"]
    ELSE [status |-> StatusNormal, level |-> "normal"]
PartCrashStatus(crashCount) ==
    IF crashCount > 1500 THEN [status |-> StatusCritical, level |-> "critical"]
    ELSE IF crashCount >= 1001 THEN [status |-> StatusWarning, level |-> "warning"]
    ELSE [status |-> StatusNormal, level |-> "normal"]

\* C24: no upstream source having failed, the status step of src/server.ts,
\* of the server in src/src/App.tsx and of the handler in
\* src/unnamed/part_000 gives the review count and the crash count of a
\* snapshot of src/api/status.ts the level and the status label of that
\* snapshot.
C24_VariantsAgree ==
    \A r \in Reqs : (Got200(r) /\ ReviewsOk(r) /\ CrashesOk(r)) =>
        LET reviews == [status |-> Body(r).reviews.status, level |-> Body(r).reviews.level]
            crashes == [status |-> Body(r).crashes.status, level |-> Body(r).crashes.level]
        IN /\ ServerReviewStatus(st[r].playConsoleRaw, Body(r).reviews.count) = reviews
           /\ AppReviewStatus(Body(r).reviews.count) = reviews
           /\ PartReviewStatus(Body(r).reviews.count) = reviews
           /\ ServerCrashStatus(st[r].ga4Raw, Body(r).crashes.count) = crashes
           /\ AppCrashStatus(Body(r).crashes.count) = crashes
           /\ PartCrashStatus(Body(r).crashes.count) = crashes

\* C24 witness: a snapshot with five bad reviews and 1501 crash events, on
\* which all four agree on warning and critical.
C24_Witness ==
    \E r \in Reqs :
        /\ Got200(r) /\ ReviewsOk(r) /\ CrashesOk(r)
        /\ Body(r).reviews.count = 5 /\ Body(r).crashes.count = 1501
        /\ PartReviewStatus(5).level = "warning" /\ Body(r).reviews.level = "warning"
        /\ ServerCrashStatus(st[r].ga4Raw, 1501).level = "critical"
        /\ Body(r).crashes.level = "critical"

====
